---- MODULE Spec2Model ----
(***************************************************************************)
(* The SYF Hotel backend: four variants of one HTTP service.               *)
(*   "file"    in-memory cache over JSON files   (unnamed/part_000:1-168)  *)
(*   "render"  hosted store, production server   (server.js)               *)
(*   "backend" hosted store, hardened server     (unnamed/part_000:170-428)*)
(*   "schema"  hosted store, updated schema      (unnamed/part_001)        *)
(* A behaviour runs one variant, fixed in Init.  Handlers of the hosted    *)
(* variants are async: every await on the store is a separate step, so     *)
(* requests interleave between steps.  Handlers of the file variant are    *)
(* synchronous; only their fs.writeFile calls complete later.              *)
(***************************************************************************)
EXTENDS Integers, Sequences, FiniteSets, TLC

\* ------------------------------------------------------------ bounds
MaxReq == 2        \* booking requests per behaviour
MaxQty == 2        \* largest quantity a request asks for
MaxCount == 1      \* largest count an administrative update sets
MaxAdmin == 1      \* administrative requests per behaviour
MaxEntries == 2    \* entries of one bulk-update body
MaxClock == 2      \* readings of the server clock, in milliseconds, from 0

\* ------------------------------------------------------------ JavaScript values
\* Numbers are integers; the non-numbers the handlers can meet are tokens
\* outside the range of the integers in play.
NaN == -1000
Undefined == -1001
Null == -1002
BadStr == -1003     \* a non-numeric string such as "abc"
Str0 == -1004       \* the string "0": truthy, yet parses to 0

IsInt(x) == x \notin {NaN, Undefined, Null, BadStr, Str0}

\* parseInt(x)
ParseInt(x) ==
    IF x = Str0 THEN 0
    ELSE IF IsInt(x) THEN x
    ELSE NaN

\* ToNumber(x), the coercion the arithmetic and relational operators apply
ToNumber(x) ==
    IF x = Null \/ x = Str0 THEN 0
    ELSE IF IsInt(x) THEN x
    ELSE NaN

\* a || b
Truthy(x) == x \notin {0, NaN, Undefined, Null}
Or(a, b) == IF Truthy(a) THEN a ELSE b

\* a - b
JsSub(a, b) ==
    IF ToNumber(a) = NaN \/ ToNumber(b) = NaN THEN NaN
    ELSE ToNumber(a) - ToNumber(b)

\* a < b
JsLt(a, b) ==
    /\ ToNumber(a) # NaN
    /\ ToNumber(b) # NaN
    /\ ToNumber(a) < ToNumber(b)

\* Math.max(0, x) (Unclamped: the same without the floor of 0)
Unclamped(x) == ToNumber(x)
MathMax0(x) ==
    IF ToNumber(x) = NaN THEN NaN
    ELSE IF ToNumber(x) < 0 THEN 0 ELSE ToNumber(x)

\* JSON.stringify of a number: NaN is written as null
ToJson(x) == IF x = NaN THEN Null ELSE x

\* String.prototype.trim on the keys in play
Trim(k) == IF k = "Suite Room " THEN "Suite Room" ELSE k

\* ------------------------------------------------------------ inputs
Variants == {"file", "render", "backend", "schema"}
Hosted == Variants \ {"file"}
Reqs == 1..MaxReq

\* the inventory both stores start with
defaultAvailability == [k \in {"Family Room", "Suite Room"} |->
                          IF k = "Family Room" THEN 2 ELSE 3]

RoomInputs == {"Family Room", "Suite Room", "Penthouse", ""}
QtyInputs == {Undefined, BadStr, Str0} \cup (-1..MaxQty)
CountInputs == {BadStr} \cup (-1..MaxCount)
BulkKeys == {"Family Room", "Suite Room", "Suite Room ", "Penthouse"}

NoResp == [status |-> 0, success |-> FALSE, error |-> "", details |-> "",
           remaining |-> Undefined, booking |-> Undefined]
NoBody == [room_type |-> "", quantity |-> Undefined]
NoBulkResp == [status |-> 0, success |-> FALSE, okCount |-> Undefined,
               failCount |-> Undefined, errors |-> <<>>]
NoHist == [fetch |-> "none", upd |-> "none", ins |-> "none", rb |-> "none"]

VARIABLES
    variant,            \* the program that is deployed
    rooms,              \* hosted store, table rooms: room_type -> available
    bookings,           \* hosted store, table bookings, in insertion order
    availabilityCache,  \* file variant: in-memory availability
    bookingsCache,      \* file variant: in-memory bookings, newest first
    availabilityFile,   \* file variant: contents of availability.json
    bookingsFile,       \* file variant: contents of bookings.json
    availWrites,        \* file variant: fs.writeFile calls not yet completed
    bookingWrites,
    pc,                 \* per request: where its handler stands
    body,               \* per request: req.body
    room,               \* per request: room.available as fetched
    resp,               \* per request: the response sent
    hist,               \* per request: outcome of its store calls
    arrival,            \* per request: stock of its room type when it arrived
    pre,                \* per request: stock just before its decrement write
    raced,              \* per request: count an admin set while it was in flight
    adminCount,         \* administrative requests received
    bulkBody,           \* bulk update: the entries of req.body, in key order
    bulkOut,            \* bulk update: per entry "todo", "ok", "err" or "invalid"
    bulkResp,           \* bulk update: the response sent
    now                 \* Date.now() of the server process

reqVars == <<pc, body, room, resp, hist, arrival, pre, raced>>
fileVars == <<availabilityCache, bookingsCache, availabilityFile, bookingsFile,
              availWrites, bookingWrites>>
dbVars == <<rooms, bookings>>
bulkVars == <<bulkBody, bulkOut, bulkResp>>
vars == <<variant, dbVars, fileVars, reqVars, adminCount, bulkVars, now>>

Init ==
    /\ variant \in Variants
    /\ rooms = defaultAvailability
    /\ bookings = <<>>
    /\ availabilityCache = defaultAvailability
    /\ bookingsCache = <<>>
    /\ availabilityFile = defaultAvailability
    /\ bookingsFile = <<>>
    /\ availWrites = {}
    /\ bookingWrites = {}
    /\ pc = [r \in Reqs |-> "idle"]
    /\ body = [r \in Reqs |-> NoBody]
    /\ room = [r \in Reqs |-> Undefined]
    /\ resp = [r \in Reqs |-> NoResp]
    /\ hist = [r \in Reqs |-> NoHist]
    /\ arrival = [r \in Reqs |-> Undefined]
    /\ pre = [r \in Reqs |-> Undefined]
    /\ raced = [r \in Reqs |-> Undefined]
    /\ adminCount = 0
    /\ bulkBody = <<>>
    /\ bulkOut = <<>>
    /\ bulkResp = NoBulkResp
    /\ now = 0

\* ------------------------------------------------------------ request parsing
\* the quantity a booking handler works with
\*   file:           parseInt(req.body.quantity || 1)
\*   render/backend: parseInt(b.quantity) || 1
\*   schema:         parseInt(req.body.quantity || 1)
QtyOf(v, q) ==
    IF v \in {"render", "backend"} THEN Or(ParseInt(q), 1)
    ELSE ParseInt(Or(q, 1))

Qty(r) == QtyOf(variant, body[r].quantity)
RoomType(r) == body[r].room_type

\* ------------------------------------------------------------ responses
NotFoundResp(v) ==
    IF v = "render" THEN
        [NoResp EXCEPT !.status = 404, !.error = "Room type not found"]
    ELSE IF v = "backend" THEN
        [NoResp EXCEPT !.status = 400, !.error = "Room category not found"]
    ELSE \* schema: throw roomError, answered by the catch block
        [NoResp EXCEPT !.status = 500, !.error = "Failed to process booking",
                       !.details = "roomError"]

SoldOutResp(v, stock) ==
    IF v \in {"render", "backend"} THEN
        [NoResp EXCEPT !.status = 400, !.error = "Room category sold out"]
    ELSE \* schema and file: the message carries the stock that is left
        [NoResp EXCEPT !.status = 400, !.error = "not enough rooms",
                       !.remaining = stock]

\* the catch block of the booking handler (ErrorEscapes: an error that leaves
\* the handler, nothing is sent)
ErrorEscapes(v, message) == NoResp
ErrorResp(v, message) ==
    [NoResp EXCEPT !.status = 500,
                   !.error = IF v = "schema" THEN "Failed to process booking"
                             ELSE IF v = "backend" THEN "Internal Server Error"
                             ELSE "Internal server error",
                   !.details = message]

\* the answer to a booking that went through; quantity is the quantity of the
\* booking object the answer carries
\*   file:           {success, booking}
\*   render/backend: {success, message}
\*   schema:         {success, message, booking, remainingRooms}
OkResp(v, newStock, quantity) ==
    [NoResp EXCEPT !.status = 200, !.success = TRUE,
                   !.remaining = IF v = "schema" THEN newStock ELSE Undefined,
                   !.booking = IF v \in {"file", "schema"} THEN quantity ELSE Undefined]

\* ------------------------------------------------------------ hosted store
\* from('rooms').update({available: val}).eq('room_type', key): the rows that
\* match are written, the payload travels as JSON
DbUpdate(tbl, key, val) ==
    IF key \in DOMAIN tbl THEN [tbl EXCEPT ![key] = ToJson(val)] ELSE tbl

\* from('bookings').insert([record]): the handlers send no created_at, the
\* store stamps the row; a row inserted later gets a later stamp
DbInsert(tbl, rec) == Append(tbl, rec @@ [created_at |-> Len(tbl) + 1])

\* ------------------------------------------------------------ booking, hosted
\* the stock test of the handler: room.available < qty
SoldOut(stock, q) == JsLt(stock, q)

\* the value the decrement writes: room.available - qty
NewStockOfOne(stock, q) == JsSub(stock, 1)
NewStock(stock, q) == JsSub(stock, q)

\* the value the rollback writes: room.available, as fetched
RollbackStock(stock, q) == stock

\* the record the handler inserts
HostedRecord(r) ==
    [req |-> r, room_category |-> RoomType(r), number_of_rooms |-> ToJson(Qty(r))]

Finish(r, response) ==
    /\ pc' = [pc EXCEPT ![r] = "done"]
    /\ resp' = [resp EXCEPT ![r] = response]

\* the stock a store holds for a room type, Undefined when it has no such row
StockOf(store, k) == IF k \in DOMAIN store THEN store[k] ELSE Undefined

\* requests are interchangeable: they are numbered in order of arrival
NextToArrive(r) == pc[r] = "idle" /\ \A s \in Reqs : s < r => pc[s] # "idle"

\* POST /api/bookings up to and including the fetch of the stock and the
\* synchronous checks that follow it
HostedSubmit(r, b) ==
    /\ variant \in Hosted
    /\ NextToArrive(r)
    /\ body' = [body EXCEPT ![r] = b]
    /\ arrival' = [arrival EXCEPT ![r] = StockOf(rooms, b.room_type)]
    /\ \E fetchOk \in BOOLEAN :
         LET rt == b.room_type
             q == QtyOf(variant, b.quantity)
         IN IF ~fetchOk \/ rt \notin DOMAIN rooms THEN
                /\ hist' = [hist EXCEPT ![r].fetch = "err"]
                /\ Finish(r, NotFoundResp(variant))
                /\ UNCHANGED room
            ELSE
                /\ hist' = [hist EXCEPT ![r].fetch = "ok"]
                /\ room' = [room EXCEPT ![r] = rooms[rt]]
                /\ IF SoldOut(rooms[rt], q)
                   THEN Finish(r, SoldOutResp(variant, rooms[rt]))
                   ELSE /\ pc' = [pc EXCEPT ![r] = "update"]
                        /\ UNCHANGED resp
    /\ UNCHANGED <<variant, now, dbVars, fileVars, pre, raced, adminCount, bulkVars>>

\* the write that decrements the stock (HostedUpdateErrorIgnored: the same
\* handler without "if (updErr) throw updErr")
HostedUpdateErrorIgnored(r) ==
    /\ pc[r] = "update"
    /\ \E ok \in BOOLEAN :
         /\ rooms' = IF ok THEN DbUpdate(rooms, RoomType(r), NewStock(room[r], Qty(r)))
                     ELSE rooms
         /\ pre' = [pre EXCEPT ![r] = IF ok THEN rooms[RoomType(r)] ELSE @]
         /\ hist' = [hist EXCEPT ![r].upd = IF ok THEN "ok" ELSE "err"]
         /\ pc' = [pc EXCEPT ![r] = "insert"]
    /\ UNCHANGED <<variant, now, bookings, fileVars, body, room, resp, arrival, raced,
                   adminCount, bulkVars>>
HostedUpdate(r) ==
    /\ pc[r] = "update"
    /\ \E ok \in BOOLEAN :
         IF ok THEN
             /\ rooms' = DbUpdate(rooms, RoomType(r), NewStock(room[r], Qty(r)))
             /\ pre' = [pre EXCEPT ![r] = rooms[RoomType(r)]]
             /\ hist' = [hist EXCEPT ![r].upd = "ok"]
             /\ pc' = [pc EXCEPT ![r] = "insert"]
             /\ UNCHANGED resp
         ELSE
             /\ hist' = [hist EXCEPT ![r].upd = "err"]
             /\ Finish(r, ErrorResp(variant, "updErr"))
             /\ UNCHANGED <<rooms, pre>>
    /\ UNCHANGED <<variant, now, bookings, fileVars, body, room, arrival, raced, adminCount, bulkVars>>

\* the insert of the booking record
HostedInsert(r) ==
    /\ pc[r] = "insert"
    /\ \E ok \in BOOLEAN :
         IF ok THEN
             /\ bookings' = DbInsert(bookings, HostedRecord(r))
             /\ hist' = [hist EXCEPT ![r].ins = "ok"]
             /\ Finish(r, OkResp(variant, NewStock(room[r], Qty(r)),
                                  HostedRecord(r).number_of_rooms))
         ELSE
             /\ hist' = [hist EXCEPT ![r].ins = "err"]
             /\ pc' = [pc EXCEPT ![r] = "rollback"]
             /\ UNCHANGED <<bookings, resp>>
    /\ UNCHANGED <<variant, now, rooms, fileVars, body, room, arrival, pre, raced, adminCount, bulkVars>>

\* the rollback write; its result is not looked at, the insert error is thrown
HostedRollback(r) ==
    /\ pc[r] = "rollback"
    /\ \E ok \in BOOLEAN :
         /\ rooms' = IF ok THEN DbUpdate(rooms, RoomType(r), RollbackStock(room[r], Qty(r)))
                     ELSE rooms
         /\ hist' = [hist EXCEPT ![r].rb = IF ok THEN "ok" ELSE "err"]
    /\ Finish(r, ErrorResp(variant, "insErr"))
    /\ UNCHANGED <<variant, now, bookings, fileVars, body, room, arrival, pre, raced, adminCount, bulkVars>>

\* the insert never returns: the promise the handler awaits stays pending, no
\* timer is set on it, and the handler has no other continuation
StoreHangs(r) ==
    /\ pc[r] = "insert"
    /\ pc' = [pc EXCEPT ![r] = "hung"]
    /\ hist' = [hist EXCEPT ![r].ins = "pending"]
    /\ UNCHANGED <<variant, now, dbVars, fileVars, body, room, resp, arrival, pre, raced,
                   adminCount, bulkVars>>

\* ------------------------------------------------------------ booking, file variant
\* JSON.stringify(availabilityCache), JSON.stringify(bookingsCache)
AvailabilityJson(cache) == [k \in DOMAIN cache |-> ToJson(cache[k])]
BookingsJson(list) == [i \in 1..Len(list) |-> [list[i] EXCEPT !.quantity = ToJson(@)]]

\* the booking object the file variant builds from the request
FileRecord(r, b) ==
    [req |-> r, id |-> now, room_type |-> b.room_type, quantity |-> Or(b.quantity, 1)]

\* POST /api/bookings of the file variant: one synchronous handler
FileSubmit(r, b) ==
    /\ variant = "file"
    /\ NextToArrive(r)
    /\ body' = [body EXCEPT ![r] = b]
    /\ arrival' = [arrival EXCEPT ![r] = StockOf(availabilityCache, b.room_type)]
    /\ LET roomType == b.room_type
           requestedQty == ParseInt(FileRecord(r, b).quantity)
           known == roomType \in DOMAIN availabilityCache
           currentStock == ParseInt(availabilityCache[roomType])
       IN /\ room' = [room EXCEPT ![r] = IF known THEN currentStock ELSE Undefined]
          /\ IF known /\ SoldOut(currentStock, requestedQty) THEN
                 /\ Finish(r, SoldOutResp("file", currentStock))
                 /\ UNCHANGED <<fileVars, pre, hist>>
             ELSE
                 /\ availabilityCache' =
                        IF known
                        THEN [availabilityCache EXCEPT
                                 ![roomType] = NewStock(currentStock, requestedQty)]
                        ELSE availabilityCache
                 /\ availWrites' =
                        IF known
                        THEN availWrites \cup {AvailabilityJson(availabilityCache')}
                        ELSE availWrites
                 /\ pre' = [pre EXCEPT ![r] = StockOf(availabilityCache, roomType)]
                 /\ hist' = [hist EXCEPT ![r].upd = IF known THEN "ok" ELSE "none"]
                 /\ bookingsCache' = <<FileRecord(r, b)>> \o bookingsCache
                 /\ bookingWrites' = bookingWrites \cup {BookingsJson(bookingsCache')}
                 /\ Finish(r, OkResp("file", Undefined, ToJson(FileRecord(r, b).quantity)))
                 /\ UNCHANGED <<availabilityFile, bookingsFile>>
    /\ UNCHANGED <<variant, now, dbVars, raced, adminCount, bulkVars>>

\* completion of a pending fs.writeFile; an error is logged and nothing else
AvailWriteDone(w, ok) ==
    /\ w \in availWrites
    /\ availWrites' = availWrites \ {w}
    /\ availabilityFile' = IF ok THEN w ELSE availabilityFile
    /\ UNCHANGED <<variant, now, dbVars, availabilityCache, bookingsCache, bookingsFile,
                   bookingWrites, reqVars, adminCount, bulkVars>>

BookingWriteDone(w, ok) ==
    /\ w \in bookingWrites
    /\ bookingWrites' = bookingWrites \ {w}
    /\ bookingsFile' = IF ok THEN w ELSE bookingsFile
    /\ UNCHANGED <<variant, now, dbVars, availabilityCache, bookingsCache, availabilityFile,
                   availWrites, reqVars, adminCount, bulkVars>>

\* the clock of the server process moves on
Tick ==
    /\ now < MaxClock
    /\ now' = now + 1
    /\ UNCHANGED <<variant, dbVars, fileVars, reqVars, adminCount, bulkVars>>

\* ------------------------------------------------------------ availability, file variant
\* POST /api/availability with roomType and quantity: the decrement form
FileDecrement(roomType, quantity) ==
    /\ variant = "file"
    /\ adminCount < MaxAdmin
    /\ roomType # "" /\ quantity # Undefined
    /\ adminCount' = adminCount + 1
    /\ LET qty == ParseInt(quantity)
       IN availabilityCache' =
              IF roomType \in DOMAIN availabilityCache
              THEN [availabilityCache EXCEPT
                       ![roomType] = MathMax0(JsSub(availabilityCache[roomType], qty))]
              ELSE availabilityCache
    /\ availWrites' = availWrites \cup {AvailabilityJson(availabilityCache')}
    /\ UNCHANGED <<variant, now, dbVars, bookingsCache, availabilityFile, bookingsFile,
                   bookingWrites, reqVars, bulkVars>>

\* POST /api/availability otherwise: the body replaces the cache when it has the
\* key "Family Room"
FileOverride(newMap) ==
    /\ variant = "file"
    /\ adminCount < MaxAdmin
    /\ adminCount' = adminCount + 1
    /\ availabilityCache' = IF "Family Room" \in DOMAIN newMap THEN newMap
                            ELSE availabilityCache
    /\ availWrites' = availWrites \cup {AvailabilityJson(availabilityCache')}
    /\ UNCHANGED <<variant, now, dbVars, bookingsCache, availabilityFile, bookingsFile,
                   bookingWrites, reqVars, bulkVars>>

\* ------------------------------------------------------------ availability, hosted
InFlight(r) == pc[r] \in {"update", "insert", "rollback"}

\* the requests that are between their fetch and their answer when an
\* administrative write of val lands on the row key
Racing(key, val) ==
    [r \in Reqs |-> IF InFlight(r) /\ RoomType(r) = key /\ key \in DOMAIN rooms
                    THEN ToJson(val) ELSE raced[r]]

\* POST /api/rooms/update-availability (schema variant)
HostedSetAvailable(room_type, available) ==
    /\ variant = "schema"
    /\ adminCount < MaxAdmin
    /\ adminCount' = adminCount + 1
    /\ \E ok \in BOOLEAN :
         IF room_type # "" /\ available # Undefined /\ ok THEN
             /\ rooms' = DbUpdate(rooms, room_type, ParseInt(available))
             /\ raced' = Racing(room_type, ParseInt(available))
         ELSE UNCHANGED <<rooms, raced>>
    /\ UNCHANGED <<variant, now, bookings, fileVars, pc, body, room, resp, hist, arrival, pre,
                   bulkVars>>

\* the bodies of POST /api/rooms/bulk-update: entries with distinct keys
BulkBodies ==
    {e \in UNION {[1..n -> [key : BulkKeys, count : CountInputs]] : n \in 1..MaxEntries} :
        \A i, j \in DOMAIN e : i # j => e[i].key # e[j].key}

\* the row an entry is written to
BulkKey(v, key) == IF v = "schema" THEN key ELSE Trim(key)

\* the count an entry writes
\*   render:  parseInt(count) || 0
\*   backend: parseInt(count), the entry is skipped when it is NaN
\*   schema:  parseInt(available)
BulkValue(v, count) == IF v = "render" THEN Or(ParseInt(count), 0) ELSE ParseInt(count)

\* the entry is refused before any write (backend: isNaN(availCount))
BulkInvalid(v, count) == v = "backend" /\ ParseInt(count) = NaN

Indexes(out, kinds) == {i \in DOMAIN out : out[i] \in kinds}

\* the keys of the entries with an outcome in kinds, in entry order
KeysOf(entries, out, kinds) ==
    LET idx == SelectSeq([i \in DOMAIN out |-> i], LAMBDA i : out[i] \in kinds)
    IN [j \in DOMAIN idx |-> BulkKey(variant, entries[idx[j]].key)]

\* the answer of the bulk update once every entry has its outcome
BulkResponse(v, entries, out) ==
    LET nOk == Cardinality(Indexes(out, {"ok"}))
        nErr == Cardinality(Indexes(out, {"err"}))
        nBad == Cardinality(Indexes(out, {"invalid"}))
    IN IF v = "render" THEN
           IF nErr > 0
           THEN [NoBulkResp EXCEPT !.status = 207, !.success = (nOk > 0),
                                   !.errors = KeysOf(entries, out, {"err"})]
           ELSE [NoBulkResp EXCEPT !.status = 200, !.success = TRUE]
       ELSE IF v = "backend" THEN
           IF nErr + nBad > 0
           THEN [NoBulkResp EXCEPT !.status = 207, !.success = (nOk > 0),
                                   !.okCount = nOk, !.failCount = nErr + nBad,
                                   !.errors = KeysOf(entries, out, {"err", "invalid"})]
           ELSE [NoBulkResp EXCEPT !.status = 200, !.success = TRUE]
       ELSE
           IF nErr > 0
           THEN [NoBulkResp EXCEPT !.status = 500,
                                   !.errors = KeysOf(entries, out, {"err"})]
           ELSE [NoBulkResp EXCEPT !.status = 200, !.success = TRUE]

\* POST /api/rooms/bulk-update arrives
BulkStart(entries) ==
    /\ variant \in Hosted
    /\ adminCount < MaxAdmin
    /\ bulkBody = <<>>
    /\ adminCount' = adminCount + 1
    /\ bulkBody' = entries
    /\ bulkOut' = [i \in DOMAIN entries |-> "todo"]
    /\ UNCHANGED <<variant, now, dbVars, fileVars, reqVars, bulkResp>>

\* one entry of the batch: render and backend await each write in key order,
\* schema issues them all and they land in any order
BulkStep(i) ==
    /\ i \in Indexes(bulkOut, {"todo"})
    /\ variant = "schema" \/ \A j \in Indexes(bulkOut, {"todo"}) : i <= j
    /\ LET key == BulkKey(variant, bulkBody[i].key)
           val == BulkValue(variant, bulkBody[i].count)
       IN IF BulkInvalid(variant, bulkBody[i].count) THEN
              /\ bulkOut' = [bulkOut EXCEPT ![i] = "invalid"]
              /\ UNCHANGED <<rooms, raced>>
          ELSE \E ok \in BOOLEAN :
              IF ok THEN
                  /\ rooms' = DbUpdate(rooms, key, val)
                  /\ raced' = Racing(key, val)
                  /\ bulkOut' = [bulkOut EXCEPT ![i] = "ok"]
              ELSE
                  /\ bulkOut' = [bulkOut EXCEPT ![i] = "err"]
                  /\ UNCHANGED <<rooms, raced>>
    /\ bulkResp' = IF Indexes(bulkOut', {"todo"}) = {}
                   THEN BulkResponse(variant, bulkBody, bulkOut')
                   ELSE bulkResp
    /\ UNCHANGED <<variant, now, bookings, fileVars, pc, body, room, resp, hist, arrival, pre,
                   adminCount, bulkBody>>

\* ------------------------------------------------------------ reading the availability
\* GET /api/availability: the file variant answers with availabilityCache, the
\* hosted variants with the map room_type -> available of the rows of rooms
GetAvailability(v, cache, tbl) == IF v = "file" THEN cache ELSE tbl

\* ------------------------------------------------------------ reading the bookings
\* the rows of a table without row i
WithoutRow(rows, i) ==
    [j \in 1..(Len(rows) - 1) |-> IF j < i THEN rows[j] ELSE rows[j + 1]]

\* .order('created_at', {ascending: false})
RECURSIVE ByCreatedAtDesc(_)
ByCreatedAtDesc(rows) ==
    IF rows = <<>> THEN <<>>
    ELSE LET i == CHOOSE j \in DOMAIN rows :
                      \A l \in DOMAIN rows : rows[l].created_at <= rows[j].created_at
         IN <<rows[i]>> \o ByCreatedAtDesc(WithoutRow(rows, i))

\* .order('created_at', {ascending: true})
RECURSIVE ByCreatedAtAsc(_)
ByCreatedAtAsc(rows) ==
    IF rows = <<>> THEN <<>>
    ELSE LET i == CHOOSE j \in DOMAIN rows :
                      \A l \in DOMAIN rows : rows[j].created_at <= rows[l].created_at
         IN <<rows[i]>> \o ByCreatedAtAsc(WithoutRow(rows, i))

\* GET /api/bookings: the file variant answers with bookingsCache, the hosted
\* variants with the rows of bookings ordered by created_at, latest first
GetBookingsAscending(v, cache, tbl) ==
    IF v = "file" THEN cache ELSE ByCreatedAtAsc(tbl)
GetBookings(v, cache, tbl) ==
    IF v = "file" THEN cache ELSE ByCreatedAtDesc(tbl)

\* ------------------------------------------------------------ specifications
\* the steps that complete work already accepted
Progress ==
    \/ \E r \in Reqs : HostedUpdate(r)
    \/ \E r \in Reqs : HostedInsert(r)
    \/ \E r \in Reqs : HostedRollback(r)
    \/ \E w \in availWrites, ok \in BOOLEAN : AvailWriteDone(w, ok)
    \/ \E w \in bookingWrites, ok \in BOOLEAN : BookingWriteDone(w, ok)
    \/ \E i \in DOMAIN bulkBody : BulkStep(i)

\* Spec: bookings with well-formed quantities race each other and one
\* administrative write of one room type
BookingBodies == [room_type : RoomInputs, quantity : 1..MaxQty]
SingleEntries == {<<[key |-> "Suite Room", count |-> c]>> : c \in CountInputs}
FullOverrides == [{"Family Room", "Suite Room"} -> CountInputs]

Next ==
    \/ \E r \in Reqs, b \in BookingBodies : HostedSubmit(r, b)
    \/ \E r \in Reqs, b \in BookingBodies : FileSubmit(r, b)
    \/ \E c \in CountInputs : HostedSetAvailable("Suite Room", c)
    \/ \E e \in SingleEntries : BulkStart(e)
    \/ \E q \in 1..MaxQty : FileDecrement("Suite Room", q)
    \/ \E m \in FullOverrides : FileOverride(m)
    \/ Progress

Spec == Init /\ [][Next]_vars

\* SpecSeq: bookings of the room types of the inventory, one request at a
\* time: a request arrives only when no handler stands between two awaits.
\* At most one administrative update changes the stock of Suite Room.  The
\* completions of the file writes are left out: they change neither the cache
\* nor any answer.
Quiet == (\A r \in Reqs : ~InFlight(r)) /\ Indexes(bulkOut, {"todo"}) = {}

SuiteOverrides == {[defaultAvailability EXCEPT !["Suite Room"] = c] : c \in CountInputs}
KnownBodies == [room_type : DOMAIN defaultAvailability, quantity : 1..MaxQty]

NextSeq ==
    \/ Quiet /\ \E r \in Reqs, b \in KnownBodies : HostedSubmit(r, b)
    \/ Quiet /\ \E r \in Reqs, b \in KnownBodies : FileSubmit(r, b)
    \/ Quiet /\ adminCount = 0 /\ \E c \in CountInputs : HostedSetAvailable("Suite Room", c)
    \/ Quiet /\ adminCount = 0 /\ \E e \in SingleEntries : BulkStart(e)
    \/ Quiet /\ adminCount = 0 /\ \E q \in 1..MaxQty : FileDecrement("Suite Room", q)
    \/ Quiet /\ adminCount = 0 /\ \E m \in SuiteOverrides : FileOverride(m)
    \/ \E r \in Reqs : HostedUpdate(r)
    \/ \E r \in Reqs : HostedInsert(r)
    \/ \E r \in Reqs : HostedRollback(r)
    \/ \E i \in DOMAIN bulkBody : BulkStep(i)

SpecSeq == Init /\ [][NextSeq]_vars

\* SpecBulk: a bulk update of up to MaxEntries entries, of any shape, with one
\* booking of one Suite Room beside it
OneBooking == {[room_type |-> "Suite Room", quantity |-> 1]}

NextBulk ==
    \/ \E e \in BulkBodies : BulkStart(e)
    \/ \E i \in DOMAIN bulkBody : BulkStep(i)
    \/ \E b \in OneBooking : HostedSubmit(1, b)
    \/ HostedUpdate(1)
    \/ HostedInsert(1)
    \/ HostedRollback(1)

SpecBulk == Init /\ [][NextBulk]_vars

\* SpecQty: bookings of Suite Room, one request at a time, with every shape of
\* quantity: omitted, not a number, the string "0", zero, negative, positive
QtyBodies == [room_type : {"Suite Room"}, quantity : QtyInputs]

NextQty ==
    \/ Quiet /\ \E r \in Reqs, b \in QtyBodies : HostedSubmit(r, b)
    \/ Quiet /\ \E r \in Reqs, b \in QtyBodies : FileSubmit(r, b)
    \/ \E r \in Reqs : HostedUpdate(r)
    \/ \E r \in Reqs : HostedInsert(r)
    \/ \E r \in Reqs : HostedRollback(r)

SpecQty == Init /\ [][NextQty]_vars

\* SpecClock: bookings of one Suite Room that race each other while the clock
\* of the server moves on, or does not, between them
NextClock ==
    \/ Tick
    \/ \E r \in Reqs, b \in OneBooking : HostedSubmit(r, b)
    \/ \E r \in Reqs, b \in OneBooking : FileSubmit(r, b)
    \/ \E r \in Reqs : HostedUpdate(r)
    \/ \E r \in Reqs : HostedInsert(r)
    \/ \E r \in Reqs : HostedRollback(r)

SpecClock == Init /\ [][NextClock]_vars

\* SpecAdmin: one administrative update of any shape, with bookings of one
\* Suite Room before and after it
PartialOverrides ==
    UNION {[D -> CountInputs] : D \in SUBSET (DOMAIN defaultAvailability) \ {{}}}
AdminRooms == {"Family Room", "Suite Room", "Penthouse"}

DecrementQtys == QtyInputs \ {Undefined}

NextAdmin ==
    \/ \E m \in PartialOverrides : FileOverride(m)
    \/ \E k \in AdminRooms, q \in DecrementQtys : FileDecrement(k, q)
    \/ \E k \in AdminRooms, c \in CountInputs : HostedSetAvailable(k, c)
    \/ \E e \in SingleEntries : BulkStart(e)
    \/ \E i \in DOMAIN bulkBody : BulkStep(i)
    \/ Quiet /\ \E r \in Reqs, b \in OneBooking : HostedSubmit(r, b)
    \/ Quiet /\ \E r \in Reqs, b \in OneBooking : FileSubmit(r, b)
    \/ \E r \in Reqs : HostedUpdate(r)
    \/ \E r \in Reqs : HostedInsert(r)
    \/ \E r \in Reqs : HostedRollback(r)

SpecAdmin == Init /\ [][NextAdmin]_vars

\* SpecLive: bookings one at a time against a store whose insert may never
\* return.  A store call that returns resumes its handler: the continuations
\* of the awaits are weakly fair.
NextLive ==
    \/ Quiet /\ \E r \in Reqs, b \in KnownBodies : HostedSubmit(r, b)
    \/ Quiet /\ \E r \in Reqs, b \in KnownBodies : FileSubmit(r, b)
    \/ \E r \in Reqs : HostedUpdate(r)
    \/ \E r \in Reqs : HostedInsert(r)
    \/ \E r \in Reqs : HostedRollback(r)
    \/ \E r \in Reqs : StoreHangs(r)

SpecLive ==
    /\ Init
    /\ [][NextLive]_vars
    /\ \A r \in Reqs : /\ WF_vars(HostedUpdate(r))
                       /\ WF_vars(HostedInsert(r))
                       /\ WF_vars(HostedRollback(r))

\* SpecAnswer: bookings of every room type, one request at a time, every store
\* call of which returns, with or without an error.  A store call that returns
\* resumes its handler: the continuations of the awaits are weakly fair.
NextAnswer ==
    \/ Quiet /\ \E r \in Reqs, b \in BookingBodies : HostedSubmit(r, b)
    \/ Quiet /\ \E r \in Reqs, b \in BookingBodies : FileSubmit(r, b)
    \/ \E r \in Reqs : HostedUpdate(r)
    \/ \E r \in Reqs : HostedInsert(r)
    \/ \E r \in Reqs : HostedRollback(r)

SpecAnswer ==
    /\ Init
    /\ [][NextAnswer]_vars
    /\ \A r \in Reqs : /\ WF_vars(HostedUpdate(r))
                       /\ WF_vars(HostedInsert(r))
                       /\ WF_vars(HostedRollback(r))

\* SpecFile: the file variant with its writes: bookings, decrements and
\* overrides start fs.writeFile calls that overlap, and every one of them
\* completes without error, in any order
NextFile ==
    \/ \E r \in Reqs, b \in KnownBodies : FileSubmit(r, b)
    \/ \E q \in 1..MaxQty : FileDecrement("Suite Room", q)
    \/ \E m \in SuiteOverrides : FileOverride(m)
    \/ \E w \in availWrites : AvailWriteDone(w, TRUE)
    \/ \E w \in bookingWrites : BookingWriteDone(w, TRUE)

SpecFile == Init /\ [][NextFile]_vars

\* ------------------------------------------------------------ observations
\* what GET /api/availability answers in this state
AvailabilityMap == GetAvailability(variant, availabilityCache, rooms)
\* what GET /api/bookings answers in this state
Listing == GetBookings(variant, bookingsCache, bookings)
\* the inventory of the deployed variant
Store == IF variant = "file" THEN availabilityCache ELSE rooms
Avail(k) == StockOf(Store, k)

Answered(r) == pc[r] = "done"
Succeeded(r) == Answered(r) /\ resp[r].success
Completes(r) == pc[r] # "done" /\ pc'[r] = "done"
InsufficientStock(response) ==
    response.status = 400 /\ response.error \in {"Room category sold out", "not enough rooms"}
RoomTypeNotFound(response) ==
    /\ response.status \in {400, 404}
    /\ response.error \in {"Room type not found", "Room category not found"}

\* the booking record of request r is in the store the variant reads from
Stored(r) ==
    IF variant = "file" THEN \E i \in DOMAIN bookingsCache : bookingsCache[i].req = r
    ELSE \E i \in DOMAIN bookings : bookings[i].req = r

\* the booking record of request r is in durable storage
Durable(r) ==
    IF variant = "file" THEN \E i \in DOMAIN bookingsFile : bookingsFile[i].req = r
    ELSE \E i \in DOMAIN bookings : bookings[i].req = r

\* the quantity in the stored booking record of request r
StoredQty(r) ==
    IF variant = "file"
    THEN LET i == CHOOSE j \in DOMAIN bookingsCache : bookingsCache[j].req = r
         IN bookingsCache[i].quantity
    ELSE LET i == CHOOSE j \in DOMAIN bookings : bookings[j].req = r
         IN bookings[i].number_of_rooms

RECURSIVE SumQty(_)
SumQty(S) == IF S = {} THEN 0
             ELSE LET r == CHOOSE x \in S : TRUE IN Qty(r) + SumQty(S \ {r})

AllAnswered == \A r \in Reqs : pc[r] \in {"idle", "done"}

\* ------------------------------------------------------------ claims
\* C1: with no administrative update, the quantities of the bookings of one
\* room type that are answered with success never add up to more than the
\* stock the room type started with.
NoOversell ==
    adminCount = 0 =>
        \A k \in DOMAIN defaultAvailability :
            SumQty({r \in Reqs : Succeeded(r) /\ RoomType(r) = k
                                  /\ Qty(r) <= defaultAvailability[k]})
                <= defaultAvailability[k]

\* C2: once every request is answered (no administrative update, no failed
\* rollback write), the stock of each room type is its initial stock minus the
\* quantities of the bookings stored for it.
NoLostDecrement ==
    (AllAnswered /\ adminCount = 0 /\ \A r \in Reqs : hist[r].rb # "err") =>
        \A k \in DOMAIN defaultAvailability :
            Avail(k) = defaultAvailability[k]
                         - SumQty({r \in Reqs : Stored(r) /\ RoomType(r) = k})

\* C3: the available count of every room type is an integer >= 0 in every
\* reachable state.
AvailableNeverNegative ==
    \A k \in DOMAIN Store : IsInt(Avail(k)) /\ Avail(k) >= 0

\* C4 as stated: a booking of q rooms handled alone against a stock of N
\* succeeds and leaves N - q when q <= N, and is rejected for insufficient
\* stock, leaving N and no record, when q > N.
LoneBookingDecides ==
    [][\A r \in Reqs :
         LET N == arrival'[r]
             q == QtyOf(variant, body'[r].quantity)
             k == body'[r].room_type
         IN (Completes(r) /\ IsInt(N) /\ IsInt(q)) =>
                /\ q <= N => resp'[r].success /\ StockOf(Store', k) = N - q
                /\ q > N => /\ InsufficientStock(resp'[r])
                            /\ StockOf(Store', k) = N
                            /\ ~Stored(r)']_vars

\* C4 amended: the same, for a request none of whose store calls fails.
LoneBookingDecidesUnlessStoreFails ==
    [][\A r \in Reqs :
         LET N == arrival'[r]
             q == QtyOf(variant, body'[r].quantity)
             k == body'[r].room_type
             h == hist'[r]
         IN (/\ Completes(r) /\ IsInt(N) /\ IsInt(q)
             /\ h.fetch # "err" /\ h.upd # "err" /\ h.ins # "err") =>
                /\ q <= N => resp'[r].success /\ StockOf(Store', k) = N - q
                /\ q > N => /\ InsufficientStock(resp'[r])
                            /\ StockOf(Store', k) = N
                            /\ ~Stored(r)']_vars

\* C4 witness: from Suite Room = 3, a booking of 2 succeeded and left 1, then
\* a second booking of 2 was rejected and 1 is still left.
SecondSuiteBookingRejected ==
    /\ adminCount = 0
    /\ body[1] = [room_type |-> "Suite Room", quantity |-> 2]
    /\ body[2] = [room_type |-> "Suite Room", quantity |-> 2]
    /\ Succeeded(1)
    /\ Answered(2) /\ InsufficientStock(resp[2])
    /\ Avail("Suite Room") = 1

\* C5: with no administrative update, when a request is answered after its
\* decrement was written, its insert failed and its rollback write was applied,
\* the stock of its room type is the stock from just before its decrement, and
\* no record of it is stored.
CompensationRestores ==
    [][\A r \in Reqs :
         (/\ Completes(r) /\ adminCount = 0
          /\ hist'[r].upd = "ok" /\ hist'[r].ins = "err" /\ hist'[r].rb = "ok") =>
             /\ Avail(RoomType(r))' = pre[r]
             /\ ~Stored(r)']_vars

\* C6: a booking for a room type the inventory does not hold is answered with
\* the room-type-not-found outcome, not the generic failure, and is not stored.
UnknownRoomTypeRejected ==
    \A r \in Reqs :
        (Answered(r) /\ RoomType(r) = "Penthouse") =>
            RoomTypeNotFound(resp[r]) /\ ~Stored(r)

\* C7: a request for a room type of the inventory that is answered with success
\* has had its stock decrement written, and its booking record is in durable
\* storage as soon as no write of the bookings is pending.
ConfirmedMeansDurable ==
    \A r \in Reqs :
        (Succeeded(r) /\ arrival[r] # Undefined) =>
            /\ hist[r].upd = "ok"
            /\ bookingWrites = {} => Durable(r)

\* C8: when the insert and the rollback write both failed, the answer is not
\* the one a plain insert failure gets: it reports the failed restore too.
CompensationFailureReported ==
    \A r \in Reqs :
        (Answered(r) /\ hist[r].ins = "err" /\ hist[r].rb = "err") =>
            resp[r] # ErrorResp(variant, "insErr")

\* C9: one booking of q and one administrative write of c >= 0 that lands while
\* the booking is in flight leave the stock at a serial outcome: c, or c - q.
AtomicAgainstOverride ==
    \A r \in Reqs :
        (/\ Answered(r) /\ IsInt(raced[r]) /\ raced[r] >= 0 /\ Quiet /\ adminCount = 1
         /\ \A s \in Reqs \ {r} : pc[s] = "idle") =>
            Avail(RoomType(r)) \in
                {raced[r]} \cup (IF raced[r] >= Qty(r) THEN {raced[r] - Qty(r)} ELSE {})

\* C10: when a bulk update has answered (no booking beside it), every entry
\* with a non-numeric count is reported as failed and its room type keeps its
\* count, and every numeric entry whose write succeeded is in force (for the
\* entries that are the only one of the batch for their room type).
BulkFinished == bulkBody # <<>> /\ Indexes(bulkOut, {"todo"}) = {}
OnlyEntryFor(i) == \A j \in DOMAIN bulkBody \ {i} :
                      Trim(bulkBody[j].key) # Trim(bulkBody[i].key)
BulkEntriesIndependent ==
    (BulkFinished /\ \A r \in Reqs : pc[r] = "idle") =>
        \A i \in DOMAIN bulkBody :
            LET e == bulkBody[i]
                row == BulkKey(variant, e.key)
            IN IF ParseInt(e.count) = NaN
               THEN /\ bulkOut[i] \in {"err", "invalid"}
                    /\ OnlyEntryFor(i) => StockOf(rooms, row) = StockOf(defaultAvailability, row)
               ELSE (bulkOut[i] = "ok" /\ OnlyEntryFor(i) /\ row \in DOMAIN rooms)
                        => rooms[row] = e.count

\* C11: an administrative set of a room type's count (the single-room update
\* or an entry of a bulk update) never leaves a negative count in the store:
\* a negative count is raised to 0 before it is written.
AdminWrite == adminCount' # adminCount \/ bulkOut' # bulkOut
AdminSetCoercesCount ==
    [][(variant \in Hosted /\ AdminWrite) =>
          \A k \in DOMAIN rooms :
              rooms'[k] # rooms[k] => ~(IsInt(rooms'[k]) /\ rooms'[k] < 0)]_vars

\* C12: a booking whose room type is empty is turned down: it is not answered
\* with success and no record of it is stored.  (The claim asks more: that the
\* answer is the invalid-request one and that the stock is not even read.)
EmptyRoomTypeRejected ==
    \A r \in Reqs :
        (Answered(r) /\ RoomType(r) = "") => ~resp[r].success /\ ~Stored(r)

\* C13: a booking whose quantity is left out or is not a number is handled as
\* a booking of one room: when it is answered with success the stock of its
\* room type is one less than when it arrived and is still a number, and the
\* stored record has quantity 1.
UnparsedQuantityIsOne ==
    [][\A r \in Reqs :
         LET k == body'[r].room_type
         IN (/\ Completes(r) /\ resp'[r].success
             /\ body'[r].quantity \in {Undefined, BadStr}
             /\ IsInt(arrival'[r])) =>
                /\ IsInt(StockOf(Store', k))
                /\ StockOf(Store', k) = arrival'[r] - 1
                /\ StoredQty(r)' = 1]_vars

\* C14: no booking leaves the stock of its room type higher than it found it,
\* and every stored booking record has a quantity of at least 1.
QuantityAtLeastOne ==
    [][\A r \in Reqs :
         LET k == body'[r].room_type
             before == arrival'[r]
             after == StockOf(Store', k)
         IN Completes(r) =>
                /\ (IsInt(before) /\ IsInt(after)) => after <= before
                /\ Stored(r)' => IsInt(StoredQty(r)') /\ StoredQty(r)' >= 1]_vars

\* C15: no two stored booking records carry the same identifier, also when two
\* bookings are accepted at the same reading of the clock.
UniqueBookingIds ==
    \A i, j \in DOMAIN bookingsCache :
        i # j => bookingsCache[i].id # bookingsCache[j].id

\* C17: GET /api/bookings lists the stored bookings newest first: whenever a
\* booking is stored, it comes first in the listing and the bookings stored
\* before it follow in the order they had.
NewestBookingFirst ==
    [][\A r \in Reqs :
         (~Stored(r) /\ Stored(r)') =>
             /\ Listing' # <<>>
             /\ Head(Listing').req = r
             /\ Tail(Listing') = Listing]_vars

\* C17 witness: the second request was stored before the first one, and the
\* listing shows the first request, stored last, ahead of it.
LaterInsertListedFirst ==
    /\ Len(bookings) = 2
    /\ bookings[1].req = 2 /\ bookings[2].req = 1
    /\ Listing[1].req = 1 /\ Listing[2].req = 2

\* C16: right after an administrative override the availability map shows the
\* overridden value: every numeric count of an override of the file variant is
\* in the map, whichever keys the request has, and so is the count of a
\* single-room update of the hosted store that was applied.
OverrideIsRead ==
    [][/\ \A m \in PartialOverrides :
            FileOverride(m) =>
                \A k \in DOMAIN m :
                    IsInt(m[k]) => StockOf(AvailabilityMap', k) = m[k]
       /\ \A k \in DOMAIN rooms, c \in CountInputs :
            (HostedSetAvailable(k, c) /\ IsInt(c) /\ rooms' # rooms) =>
                StockOf(AvailabilityMap', k) = c]_vars

\* C18: a booking whose insert never returns does not wait for ever: it is
\* answered in the end (with the persistence failure of a timeout).
HungInsertTimesOut ==
    \A r \in Reqs : (pc[r] = "hung") ~> (pc[r] = "done")

\* C19: the answer to a booking that went through carries the booking record,
\* with the quantity that was asked for, and the count that is left of its room
\* type, which is the count the decrement wrote to the store.
SuccessCarriesRecordAndCount ==
    [][\A r \in Reqs :
         LET k == body'[r].room_type
             q == QtyOf(variant, body'[r].quantity)
         IN (Completes(r) /\ resp'[r].success /\ IsInt(arrival'[r])) =>
                /\ resp'[r].booking = q
                /\ resp'[r].remaining = StockOf(Store', k)]_vars

\* C20: every booking request whose store calls return is answered, once, on
\* every path: a request that has arrived is answered in the end; the answer
\* fits the path taken (200 with success, or 400/404/500 with an error text;
\* a failed stock update, a failed insert and a failed rollback all end in the
\* 500 of the catch block); and an answer, once sent, stays as it is.
AnswerFitsPath(r) ==
    LET a == resp[r]
        h == hist[r]
    IN /\ a.status \in {200, 400, 404, 500}
       /\ a.success <=> a.status = 200
       /\ ~a.success => a.error # ""
       /\ h.fetch = "err" => ~a.success
       /\ h.upd = "err" => a = ErrorResp(variant, "updErr")
       /\ h.ins = "err" => a = ErrorResp(variant, "insErr") /\ h.rb \in {"ok", "err"}
       /\ a.success => h.fetch # "err" /\ h.upd # "err" /\ h.ins # "err"
EveryRequestAnsweredOnce ==
    /\ [](\A r \in Reqs : Answered(r) => AnswerFitsPath(r))
    /\ [][\A r \in Reqs : Answered(r) => pc'[r] = "done" /\ resp'[r] = resp[r]]_vars
    /\ \A r \in Reqs : (pc[r] # "idle") ~> Answered(r)

\* C20 witness: a request whose insert and whose rollback both failed has been
\* answered with the 500 of the catch block.
AnsweredAfterFailedRollback ==
    \E r \in Reqs :
        /\ Answered(r)
        /\ hist[r].ins = "err" /\ hist[r].rb = "err"
        /\ resp[r].status = 500 /\ resp[r].details = "insErr"

\* C21: room types are independent: a step of a booking for room type R and
\* an availability update of R leave the count of every other room type as it
\* was (an override of the file variant updates the room types its body names).
Untouched(keep) ==
    \A k \in DOMAIN Store \ keep : StockOf(Store', k) = Store[k]
OtherRoomTypesUntouched ==
    [][/\ \A r \in Reqs : pc'[r] # pc[r] => Untouched({body'[r].room_type})
       /\ \A m \in PartialOverrides : FileOverride(m) => Untouched(DOMAIN m)
       /\ \A k \in AdminRooms, q \in DecrementQtys :
            FileDecrement(k, q) => Untouched({k})
       /\ \A k \in AdminRooms, c \in CountInputs :
            HostedSetAvailable(k, c) => Untouched({k})
       /\ \A i \in DOMAIN bulkBody :
            BulkStep(i) => Untouched({Trim(bulkBody[i].key)})]_vars

\* C25: the decrement form of POST /api/availability of the file variant, for
\* a room type whose count is a number and a quantity that parses to a number,
\* leaves count - quantity, or 0 when that is negative; for a room type the map
\* does not hold it changes no count and adds no key.
DecrementFormClamps ==
    [][\A k \in AdminRooms, q \in DecrementQtys :
         FileDecrement(k, q) =>
             IF k \in DOMAIN availabilityCache
             THEN LET old == availabilityCache[k]
                      n == ParseInt(q)
                  IN (IsInt(old) /\ IsInt(n)) =>
                         /\ availabilityCache'[k] = (IF old - n < 0 THEN 0 ELSE old - n)
                         /\ DOMAIN availabilityCache' = DOMAIN availabilityCache
             ELSE availabilityCache' = availabilityCache]_vars

\* C25 witness: after two bookings left one Suite Room, a decrement has brought
\* the count to 0; no other count has moved.
DecrementReachedZero ==
    /\ variant = "file"
    /\ adminCount = 1
    /\ Len(bookingsCache) = 2
    /\ availabilityCache = [defaultAvailability EXCEPT !["Suite Room"] = 0]

\* C22: the answer of a bulk update is the partial-failure summary (207)
\* exactly when an entry failed; the summary counts every entry once,
\* succeeded or failed, and holds one message per failed entry; when no entry
\* failed the answer is the plain success.
BulkSummaryCounts ==
    BulkFinished =>
        LET failed == Indexes(bulkOut, {"err", "invalid"})
        IN IF failed # {}
           THEN /\ bulkResp.status = 207
                /\ IsInt(bulkResp.okCount) /\ IsInt(bulkResp.failCount)
                /\ bulkResp.okCount + bulkResp.failCount = Len(bulkBody)
                /\ bulkResp.failCount = Cardinality(failed)
                /\ Len(bulkResp.errors) = Cardinality(failed)
           ELSE bulkResp = [NoBulkResp EXCEPT !.status = 200, !.success = TRUE]

\* C23: in the hosted variants, a booking whose stock decrement failed is
\* answered with an error at once: no booking record of it is inserted and no
\* rollback write is issued, then or later.
FailedDecrementStops ==
    \A r \in Reqs :
        hist[r].upd = "err" =>
            /\ Answered(r)
            /\ ~resp[r].success /\ resp[r].status = 500 /\ resp[r].details = "updErr"
            /\ hist[r].ins = "none" /\ hist[r].rb = "none"
            /\ ~Stored(r)
            /\ variant \in Hosted

\* C23 witness: the second request failed at its decrement after the first one
\* went through: one record is stored and the count is the one the first left.
DecrementFailedAfterBooking ==
    /\ Succeeded(1) /\ Stored(1)
    /\ hist[2].fetch = "ok" /\ hist[2].upd = "err"
    /\ Answered(2) /\ resp[2].status = 500
    /\ Len(bookings) = 1
    /\ RoomType(2) = RoomType(1)
    /\ rooms[RoomType(1)] = defaultAvailability[RoomType(1)] - Qty(1)

\* C24: in the file variant, when every write that was started has completed
\* (none with an error), availability.json and bookings.json hold what
\* availabilityCache and bookingsCache hold, whatever the order of completion.
FilesMatchCaches ==
    (variant = "file" /\ availWrites = {} /\ bookingWrites = {}) =>
        /\ availabilityFile = AvailabilityJson(availabilityCache)
        /\ bookingsFile = BookingsJson(bookingsCache)

====
